---- MODULE Spec2Model ----
(***************************************************************************)
(* A model of nickcanz/search-go: the loader (cmd/load-books), which       *)
(* creates the "books" index and bulk-writes one document per line of a    *)
(* newline-delimited JSON file, and the search tool (cmd/search-books),    *)
(* which sends one multi_match query and prints the hits.                  *)
(*                                                                         *)
(* The search engine and the go-elasticsearch client are outside the       *)
(* repository: every call into them is a step whose outcome is chosen      *)
(* among the results the caller's code distinguishes.                      *)
(***************************************************************************)
EXTENDS Naturals, Sequences, FiniteSets, TLC

VARIABLES
    file,       \* goodreads_books.json: [lines, finalNewline]
    ld,         \* the loader process: its position and its locals
    indexExists,\* engine: is there an index named "books"
    index,      \* engine: the documents of "books", in insertion order
    query,      \* search tool: the -query flag
    sr,         \* the search process: its position and its locals
    other       \* a second loader process: the one not taking the step,
                \* or the run that ended before this one started

vars == <<file, ld, indexExists, index, query, sr, other>>

(***************************************************************************)
(* Text.  A string is a sequence of characters of a small alphabet that    *)
(* holds the characters encoding/json treats specially.  U3C stands for    *)
(* the five characters u003c, so that <<BSLASH, U3C>> is the JSON escape   *)
(* of '<' and <<U3C>> alone is ordinary text.                              *)
(***************************************************************************)
QUOTE == "QUOTE"
BSLASH == "BSLASH"
LT == "LT"
U3C == "u003c"
Chars == {"a", QUOTE, BSLASH, LT, U3C}

MaxStrLen == 3

StringsUpTo(n) == UNION {[1..k -> Chars] : k \in 0..n}

RECURSIVE Concat(_)
Concat(ss) == IF ss = <<>> THEN <<>> ELSE Head(ss) \o Concat(Tail(ss))

(***************************************************************************)
(* encoding/json, string values.  Marshal writes a string between quotes   *)
(* and escapes the quote, the backslash and (escapeHTML) '<'; Unmarshal    *)
(* undoes the escapes and rejects a backslash followed by anything else.   *)
(***************************************************************************)
EscapeCharRaw(c) == <<c>>

EscapeChar(c) ==
    IF c = QUOTE THEN <<BSLASH, QUOTE>>
    ELSE IF c = BSLASH THEN <<BSLASH, BSLASH>>
    ELSE IF c = LT THEN <<BSLASH, U3C>>
    ELSE <<c>>

EncodeString(s) == Concat([i \in 1..Len(s) |-> EscapeChar(s[i])])

BadLiteral == [ok |-> FALSE, str |-> <<>>]

RECURSIVE Unquote(_)
Unquote(lit) ==
    IF lit = <<>> THEN [ok |-> TRUE, str |-> <<>>]
    ELSE IF Head(lit) = QUOTE THEN BadLiteral
    ELSE IF Head(lit) = BSLASH THEN
        IF Len(lit) < 2 THEN BadLiteral
        ELSE LET e == lit[2]
                 rest == Unquote(SubSeq(lit, 3, Len(lit)))
             IN  IF ~rest.ok THEN BadLiteral
                 ELSE IF e \in {QUOTE, BSLASH} THEN [ok |-> TRUE, str |-> <<e>> \o rest.str]
                 ELSE IF e = U3C THEN [ok |-> TRUE, str |-> <<LT>> \o rest.str]
                 ELSE BadLiteral
    ELSE LET rest == Unquote(Tail(lit))
         IN  IF rest.ok THEN [ok |-> TRUE, str |-> <<Head(lit)>> \o rest.str]
             ELSE BadLiteral

(***************************************************************************)
(* JSON objects.  An object text is its members in order, each a key and   *)
(* the characters written between the quotes of its string value; closed   *)
(* is FALSE for a text whose final brace is missing.  An empty text (no    *)
(* bytes but the newline) is kind "empty".                                 *)
(***************************************************************************)
Member(k, lit) == [key |-> k, val |-> lit]

ObjectText(ms) == [kind |-> "object", members |-> ms, closed |-> TRUE]
TruncatedText(ms) == [kind |-> "object", members |-> ms, closed |-> FALSE]
EmptyText == [kind |-> "empty", members |-> <<>>, closed |-> TRUE]

\* The Book struct of both programs, and its zero value.
Book(t, u, d) == [title |-> t, url |-> u, description |-> d]
ZeroBook == Book(<<>>, <<>>, <<>>)

\* encoding/json matches an object key to a struct field ignoring case.
FoldKey(k) == IF k = "Title" THEN "title" ELSE k

BookFields == {"title", "url", "description"}

RECURSIVE FillBook(_, _)
FillBook(ms, book) ==
    IF ms = <<>> THEN [err |-> FALSE, book |-> book]
    ELSE LET m == Head(ms)
             v == Unquote(m.val)
             f == FoldKey(m.key)
         IN  IF ~v.ok THEN [err |-> TRUE, book |-> ZeroBook]
             ELSE FillBook(Tail(ms),
                           IF f \in BookFields THEN [book EXCEPT ![f] = v.str] ELSE book)

\* json.Unmarshal(text, &book) into a zero Book.
UnmarshalBook(text) ==
    IF text.kind # "object" \/ ~text.closed
    THEN [err |-> TRUE, book |-> ZeroBook]
    ELSE FillBook(text.members, ZeroBook)

\* json.Marshal(book): the three tagged fields in declaration order.
MarshalBook(book) ==
    ObjectText(<<Member("title", EncodeString(book.title)),
                 Member("url", EncodeString(book.url)),
                 Member("description", EncodeString(book.description))>>)

(***************************************************************************)
(* The input file.  lines are the texts between newlines, in order;        *)
(* finalNewline tells whether the last of them is followed by a newline.   *)
(***************************************************************************)
LineA == ObjectText(<<Member("title", <<"a">>),
                      Member("url", <<BSLASH, U3C>>),
                      Member("description", <<>>)>>)
LineB == ObjectText(<<Member("isbn", <<"a">>),
                      Member("Title", <<BSLASH, QUOTE>>),
                      Member("url", <<"a">>)>>)
LineBad == TruncatedText(<<Member("title", <<"a">>)>>)

SampleLines == {LineA, LineB, LineBad, EmptyText}

MaxLines == 4

LineSeqs == UNION {[1..n -> SampleLines] : n \in 0..MaxLines}

\* A file that does not end with a newline ends with a non-empty line.
Files ==
    {[lines |-> ls, finalNewline |-> nl] :
        <<ls, nl>> \in {x \in LineSeqs \X BOOLEAN :
                          x[2] \/ (Len(x[1]) > 0 /\ x[1][Len(x[1])] # EmptyText)}}

NoText == [kind |-> "none", members |-> <<>>, closed |-> TRUE]

(***************************************************************************)
(* The loader, src/cmd/load-books/main.go.                                 *)
(***************************************************************************)
LoaderOff ==
    [id |-> 1, pc |-> "off", out |-> <<>>, log |-> <<>>,
     createCalls |-> 0, createResp |-> "none",
     pos |-> 0, readBytes |-> NoText, decoded |-> 0, book |-> ZeroBook,
     documentBytes |-> NoText, submitted |-> <<>>, pending |-> <<>>,
     closeCalls |-> 0]

LoaderStart == [LoaderOff EXCEPT !.pc = "load_env"]

\* log.Fatal, log.Fatalf: one line on the log, then os.Exit(1).
Fatal(l, msg) == [l EXCEPT !.pc = "fatal", !.log = Append(@, msg)]

\* Lines 26-31: the greeting, then godotenv.Load().
LoadEnv ==
    /\ ld.pc = "load_env"
    /\ \E ok \in BOOLEAN :
         LET l == [ld EXCEPT !.out = Append(@, "Hello from load-books")]
         IN  ld' = IF ok THEN [l EXCEPT !.pc = "new_client"]
                   ELSE Fatal(l, "Error loading .env file")
    /\ UNCHANGED <<file, indexExists, index, query, sr, other>>

NewClientSkippingCreate ==
    /\ ld.pc = "new_client"
    /\ \E ok \in BOOLEAN :
         ld' = IF ok THEN [ld EXCEPT !.pc = "new_indexer"]
               ELSE Fatal(ld, "new client")
    /\ UNCHANGED <<file, indexExists, index, query, sr, other>>

\* Lines 33-44: elasticsearch7.NewClient(cfg).
NewClient ==
    /\ ld.pc = "new_client"
    /\ \E ok \in BOOLEAN :
         ld' = IF ok THEN [ld EXCEPT !.pc = "create_index"]
               ELSE Fatal(ld, "new client")
    /\ UNCHANGED <<file, indexExists, index, query, sr, other>>

(***************************************************************************)
(* Lines 66-72: client.Indices.Create.  The call returns an error only     *)
(* when no response was received; an answer of the engine, whatever its    *)
(* status, comes back as a response with a nil error, and the response is  *)
(* discarded ("_").  The engine answers 400 for a name that exists, and    *)
(* may reject the request for a name that does not.                        *)
(***************************************************************************)
CreateIndexOutcomes ==
    IF indexExists THEN {"transport_error", "400"}
    ELSE {"transport_error", "200", "400"}

CreateIndexRetrying ==
    /\ ld.pc = "create_index"
    /\ \E r \in CreateIndexOutcomes :
         /\ ld' = IF r = "transport_error"
                  THEN IF ld.createCalls = 0
                       THEN [ld EXCEPT !.createCalls = @ + 1, !.createResp = r]
                       ELSE Fatal([ld EXCEPT !.createCalls = @ + 1, !.createResp = r],
                                  "create index")
                  ELSE [ld EXCEPT !.pc = "new_indexer", !.createCalls = @ + 1,
                                  !.createResp = r]
         /\ indexExists' = (indexExists \/ r = "200")
    /\ UNCHANGED <<file, index, query, sr, other>>

CreateIndex ==
    /\ ld.pc = "create_index"
    /\ \E r \in CreateIndexOutcomes :
         /\ ld' = IF r = "transport_error"
                  THEN Fatal([ld EXCEPT !.createCalls = @ + 1, !.createResp = r],
                             "create index")
                  ELSE [ld EXCEPT !.pc = "new_indexer", !.createCalls = @ + 1,
                                  !.createResp = r]
         /\ indexExists' = (indexExists \/ r = "200")
    /\ UNCHANGED <<file, index, query, sr, other>>

\* Lines 74-85: esutil.NewBulkIndexer.
NewBulkIndexer ==
    /\ ld.pc = "new_indexer"
    /\ \E ok \in BOOLEAN :
         ld' = IF ok THEN [ld EXCEPT !.pc = "open_file"]
               ELSE Fatal(ld, "new bulk indexer")
    /\ UNCHANGED <<file, indexExists, index, query, sr, other>>

\* Lines 87-93: os.Open and bufio.NewReader.
OpenFile ==
    /\ ld.pc = "open_file"
    /\ \E ok \in BOOLEAN :
         ld' = IF ok THEN [ld EXCEPT !.pc = "read"]
               ELSE Fatal(ld, "open goodreads_books.json")
    /\ UNCHANGED <<file, indexExists, index, query, sr, other>>

(***************************************************************************)
(* Lines 96-104: reader.ReadBytes('\n').  It returns the bytes up to and   *)
(* including the next newline; at the end of the file it returns the       *)
(* bytes that were left, possibly none, together with io.EOF, and the      *)
(* loop breaks on io.EOF without looking at them.                          *)
(***************************************************************************)
ReadLine ==
    /\ ld.pc = "read"
    /\ \/ /\ ld.pos < Len(file.lines)
          /\ ld.pos + 1 < Len(file.lines) \/ file.finalNewline
          /\ ld' = [ld EXCEPT !.pc = "unmarshal", !.pos = @ + 1,
                              !.readBytes = file.lines[ld.pos + 1]]
       \/ /\ ld.pos + 1 = Len(file.lines)
          /\ ~file.finalNewline
          /\ ld' = [ld EXCEPT !.pc = "close", !.pos = @ + 1,
                              !.readBytes = file.lines[ld.pos + 1]]
       \/ /\ ld.pos >= Len(file.lines)
          /\ ld' = [ld EXCEPT !.pc = "close", !.readBytes = NoText]
       \/ ld' = Fatal(ld, "error reading readBytes")
    /\ UNCHANGED <<file, indexExists, index, query, sr, other>>

UnmarshalSkippingBadLine ==
    /\ ld.pc = "unmarshal"
    /\ LET r == UnmarshalBook(ld.readBytes)
       IN  ld' = IF r.err THEN [ld EXCEPT !.pc = "read",
                                         !.log = Append(@, "error unmarshalling json")]
                 ELSE [ld EXCEPT !.pc = "marshal", !.decoded = @ + 1, !.book = r.book]
    /\ UNCHANGED <<file, indexExists, index, query, sr, other>>

UnmarshalClosingOnError ==
    /\ ld.pc = "unmarshal"
    /\ LET r == UnmarshalBook(ld.readBytes)
       IN  ld' = IF r.err
                 THEN Fatal([ld EXCEPT !.pending = <<>>, !.closeCalls = @ + 1],
                            "error unmarshalling json")
                 ELSE [ld EXCEPT !.pc = "marshal", !.decoded = @ + 1, !.book = r.book]
    /\ UNCHANGED <<file, indexExists, index, query, sr, other>>

UnmarshalRetryingLine ==
    /\ ld.pc = "unmarshal"
    /\ LET r == UnmarshalBook(ld.readBytes)
       IN  ld' = IF r.err THEN [ld EXCEPT !.pc = "read", !.pos = @ - 1]
                 ELSE [ld EXCEPT !.pc = "marshal", !.decoded = @ + 1, !.book = r.book]
    /\ UNCHANGED <<file, indexExists, index, query, sr, other>>

\* Lines 106-111: var book Book; json.Unmarshal(readBytes, &book).
Unmarshal ==
    /\ ld.pc = "unmarshal"
    /\ LET r == UnmarshalBook(ld.readBytes)
       IN  ld' = IF r.err THEN Fatal(ld, "error unmarshalling json")
                 ELSE [ld EXCEPT !.pc = "marshal", !.decoded = @ + 1, !.book = r.book]
    /\ UNCHANGED <<file, indexExists, index, query, sr, other>>

MarshalPassingLine ==
    /\ ld.pc = "marshal"
    /\ ld' = [ld EXCEPT !.pc = "add", !.documentBytes = ld.readBytes]
    /\ UNCHANGED <<file, indexExists, index, query, sr, other>>

\* Lines 113-117: json.Marshal(book), which cannot fail for three strings.
Marshal ==
    /\ ld.pc = "marshal"
    /\ ld' = [ld EXCEPT !.pc = "add", !.documentBytes = MarshalBook(ld.book)]
    /\ UNCHANGED <<file, indexExists, index, query, sr, other>>

\* The esutil.BulkIndexerItem of lines 121-132: no DocumentID is set.
ItemWithDocumentID(body) == [action |-> "index", documentID |-> "book", body |-> body]

Item(body) == [action |-> "index", documentID |-> "", body |-> body]

\* Lines 119-137: bulkIndexer.Add hands the item to the indexer's queue.
Add ==
    /\ ld.pc = "add"
    /\ \/ ld' = [ld EXCEPT !.pc = "read",
                           !.submitted = Append(@, Item(ld.documentBytes)),
                           !.pending = Append(@, Item(ld.documentBytes))]
       \/ ld' = Fatal(ld, "error adding item to bulk indexer")
    /\ UNCHANGED <<file, indexExists, index, query, sr, other>>

(***************************************************************************)
(* The bulk indexer's worker (NumWorkers: 1) runs beside the read loop.    *)
(* It takes the items handed to Add in order, sends them as a bulk         *)
(* request and reports the outcome: a failure of the request as a whole    *)
(* to OnError (lines 79-81), the failure of one item to that item's        *)
(* OnFailure (lines 125-131), with err set when the item could not be      *)
(* written into the request and res.Error set when the engine rejected it. *)
(***************************************************************************)
MaxBatch == 2

ItemOutcomes == {"ok", "rejected", "error"}

Min(a, b) == IF a < b THEN a ELSE b

OnFailureFatal(l, outcome) ==
    Fatal(l, IF outcome = "error" THEN "ERROR: err" ELSE "ERROR: type: reason")

OnFailureUncounting(l, outcome) ==
    [l EXCEPT !.log = Append(@, IF outcome = "error" THEN "ERROR: err"
                                ELSE "ERROR: type: reason"),
              !.submitted = SubSeq(@, 1, Len(@) - 1)]

\* Lines 125-131: the item's OnFailure prints one line with log.Printf.
OnFailure(l, outcome) ==
    [l EXCEPT !.log = Append(@, IF outcome = "error" THEN "ERROR: err"
                                ELSE "ERROR: type: reason")]

OnErrorLogged(l) == [l EXCEPT !.log = Append(@, "bulkindexer OnError")]

\* Lines 79-81: the indexer's OnError calls log.Fatalf.
OnError(l) == Fatal(l, "bulkindexer OnError")

\* The callbacks of one bulk response, item by item, while the process lives.
RECURSIVE Callbacks(_, _)
Callbacks(l, outcomes) ==
    IF outcomes = <<>> \/ l.pc = "fatal" THEN l
    ELSE Callbacks(IF Head(outcomes) = "ok" THEN l ELSE OnFailure(l, Head(outcomes)),
                   Tail(outcomes))

\* An "index" action without a document id adds a document under an id
\* the engine makes up (here its number); with a document id it replaces
\* the document stored under that key, if there is one.
IndexOne(docs, item) ==
    IF item.documentID = "" \/ \A i \in 1..Len(docs) : docs[i].key # item.documentID
    THEN Append(docs, [id |-> Len(docs) + 1, key |-> item.documentID,
                       source |-> item.body])
    ELSE [i \in 1..Len(docs) |->
             IF docs[i].key = item.documentID
             THEN [docs[i] EXCEPT !.source = item.body] ELSE docs[i]]

RECURSIVE Indexed(_, _, _)
Indexed(docs, items, outcomes) ==
    IF items = <<>> THEN docs
    ELSE Indexed(IF Head(outcomes) = "ok" THEN IndexOne(docs, Head(items)) ELSE docs,
                 Tail(items), Tail(outcomes))

WorkerFlush ==
    /\ ld.pc \in {"read", "unmarshal", "marshal", "add", "closing"}
    /\ ld.pending # <<>>
    /\ \E n \in 1..Min(Len(ld.pending), MaxBatch) :
         LET batch == SubSeq(ld.pending, 1, n)
             l == [ld EXCEPT !.pending = SubSeq(@, n + 1, Len(@))]
         IN  \/ /\ ld' = OnError(l)
                /\ UNCHANGED <<index, indexExists>>
             \/ \E outcomes \in [1..n -> ItemOutcomes] :
                  /\ ld' = Callbacks(l, outcomes)
                  /\ index' = Indexed(index, batch, outcomes)
                  /\ indexExists' = (indexExists \/ \E i \in 1..n : outcomes[i] = "ok")
    /\ UNCHANGED <<file, query, sr, other>>

(***************************************************************************)
(* Lines 139-141: bulkIndexer.Close closes the queue and waits until the   *)
(* worker has sent what is left; main then returns and the process exits   *)
(* with status 0.                                                          *)
(***************************************************************************)
CloseIndexer ==
    /\ ld.pc = "close"
    /\ ld' = [ld EXCEPT !.pc = "closing", !.closeCalls = @ + 1]
    /\ UNCHANGED <<file, indexExists, index, query, sr, other>>

CloseReturn ==
    /\ ld.pc = "closing"
    /\ ld.pending = <<>>
    /\ \/ ld' = [ld EXCEPT !.pc = "done"]
       \/ ld' = Fatal(ld, "Unexpected error")
    /\ UNCHANGED <<file, indexExists, index, query, sr, other>>

LoaderNext ==
    \/ LoadEnv
    \/ NewClient
    \/ CreateIndex
    \/ NewBulkIndexer
    \/ OpenFile
    \/ ReadLine
    \/ Unmarshal
    \/ Marshal
    \/ Add
    \/ WorkerFlush
    \/ CloseIndexer
    \/ CloseReturn

SearchOff ==
    [pc |-> "off", out |-> <<>>, log |-> <<>>, requests |-> <<>>,
     resp |-> [status |-> "none", kind |-> "none", total |-> 0, hits |-> <<>>],
     hits |-> <<>>, next |-> 1]

\* One run of the loader on any input file, against an engine in which
\* the index "books" may already exist.
InitLoader ==
    /\ file \in Files
    /\ ld = LoaderStart
    /\ indexExists \in BOOLEAN
    /\ index = <<>>
    /\ query = <<>>
    /\ sr = SearchOff
    /\ other = LoaderOff

Spec == InitLoader /\ [][LoaderNext]_vars

(***************************************************************************)
(* The search request.  A request body is a flat text: the tokens of the   *)
(* template of lines 57-64 with the characters of the query where the      *)
(* template has %s.                                                        *)
(***************************************************************************)
BodyPrefix == <<"{", "query:", "{", "multi_match:", "{", "query:", QUOTE>>

FieldsText == "[title,url,description]"

BodySuffixSize11 ==
    <<QUOTE, ",", "fields:", FieldsText, "}", "}", ",", "size:", "11", "}">>

BodySuffix ==
    <<QUOTE, ",", "fields:", FieldsText, "}", "}", ",", "size:", "10", "}">>

\* fmt.Sprintf(template, *queryPtr): %s copies the argument as it is.
SearchBody(q) == BodyPrefix \o q \o BodySuffix

(***************************************************************************)
(* The engine reads a request body as JSON: a string value runs from its   *)
(* opening quote to the first quote that no backslash escapes.             *)
(***************************************************************************)
Numerals == <<"1", "2", "3", "4", "5", "6", "7", "8", "9", "10", "11", "12", "13", "14">>

IsNumeral(t) == \E n \in 1..Len(Numerals) : Numerals[n] = t
ParseDecimal(t) == CHOOSE n \in 1..Len(Numerals) : Numerals[n] = t

\* The position of the quote that closes the string whose first character
\* is at i, or 0 when the text ends first.
RECURSIVE ClosingQuote(_, _)
ClosingQuote(text, i) ==
    IF i > Len(text) THEN 0
    ELSE IF text[i] = QUOTE THEN i
    ELSE IF text[i] = BSLASH THEN ClosingQuote(text, i + 2)
    ELSE ClosingQuote(text, i + 1)

BadRequest == [ok |-> FALSE, text |-> <<>>, fields |-> "", size |-> 0]

ParseSearchBody(body) ==
    LET from == Len(BodyPrefix) + 1
        close == ClosingQuote(body, from)
    IN  IF Len(body) < Len(BodyPrefix) \/ SubSeq(body, 1, Len(BodyPrefix)) # BodyPrefix
        THEN BadRequest
        ELSE IF close = 0 THEN BadRequest
        ELSE LET lit == Unquote(SubSeq(body, from, close - 1))
                 rest == SubSeq(body, close, Len(body))
             IN  IF /\ lit.ok
                    /\ Len(rest) = 10
                    /\ SubSeq(rest, 1, 3) = <<QUOTE, ",", "fields:">>
                    /\ SubSeq(rest, 5, 8) = <<"}", "}", ",", "size:">>
                    /\ IsNumeral(rest[9])
                    /\ rest[10] = "}"
                 THEN [ok |-> TRUE, text |-> lit.str, fields |-> rest[4],
                       size |-> ParseDecimal(rest[9])]
                 ELSE BadRequest

(***************************************************************************)
(* The engine's answers to a search.  It ranks the documents that match    *)
(* and returns the best of them, at most as many as the request's size,    *)
(* with the number of matches as the total.                                *)
(* Which documents match is the engine's business: here, any run of        *)
(* consecutive documents of the index.  Scores are in units of 10^-7.      *)
(***************************************************************************)
ScoreAt(rank, matches) == (matches - rank) * 12345678 + 48159717

Hits(docs, first, matches, size) ==
    [i \in 1..Min(matches, size) |->
        [source |-> docs[first + i - 1].source, score |-> ScoreAt(i, matches)]]

Response(st, kind, total, hits) ==
    [status |-> st, kind |-> kind, total |-> total, hits |-> hits]

SearchAnswers(body) ==
    LET req == ParseSearchBody(body)
    IN  {Response("503 Service Unavailable", "error", 0, <<>>)}
        \cup
        (IF ~req.ok THEN {Response("400 Bad Request", "error", 0, <<>>)}
         ELSE IF ~indexExists THEN {Response("404 Not Found", "error", 0, <<>>)}
         ELSE {Response("200 OK", "hits", matches,
                     Hits(index, first, matches, req.size)) :
                  <<first, matches>> \in
                      {x \in (1..(Len(index) + 1)) \X (0..Len(index)) :
                          x[1] + x[2] - 1 <= Len(index)}}
              \cup {Response("200 OK", "garbage", 0, Hits(index, 1, m, req.size)) :
                       m \in 0..Min(1, Len(index))})

\* resp.IsError(): a status above 299.
IsError(resp) == resp.status # "200 OK"

\* resp.String(): the status in brackets, then the body.
ResponseString(resp) == <<"[", resp.status, "] ", resp.kind>>

(***************************************************************************)
(* The search tool, src/cmd/search-books/main.go.                          *)
(***************************************************************************)
NoResponse == Response("none", "none", 0, <<>>)

SearchStart ==
    [pc |-> "flags", out |-> <<>>, log |-> <<>>, requests |-> <<>>,
     resp |-> NoResponse, hits |-> <<>>, next |-> 1]

SearchFatal(l, msg) == [l EXCEPT !.pc = "fatal", !.log = Append(@, msg)]

ParseFlagsNoCheck ==
    /\ sr.pc = "flags"
    /\ sr' = [sr EXCEPT !.pc = "load_env",
                        !.out = Append(@, <<"Searching books for: ", query>>)]
    /\ UNCHANGED <<file, ld, indexExists, index, query, other>>

\* Lines 32-38: the -query flag, refused when empty.
ParseFlags ==
    /\ sr.pc = "flags"
    /\ sr' = IF query = <<>>
             THEN SearchFatal(sr, <<"No query provided for -query parameter">>)
             ELSE [sr EXCEPT !.pc = "load_env",
                             !.out = Append(@, <<"Searching books for: ", query>>)]
    /\ UNCHANGED <<file, ld, indexExists, index, query, other>>

\* Lines 40-43: godotenv.Load().
SearchLoadEnv ==
    /\ sr.pc = "load_env"
    /\ \E ok \in BOOLEAN :
         sr' = IF ok THEN [sr EXCEPT !.pc = "new_client"]
               ELSE SearchFatal(sr, <<"Error loading .env file">>)
    /\ UNCHANGED <<file, ld, indexExists, index, query, other>>

\* Lines 45-56: elasticsearch7.NewClient(cfg).
SearchNewClient ==
    /\ sr.pc = "new_client"
    /\ \E ok \in BOOLEAN :
         sr' = IF ok THEN [sr EXCEPT !.pc = "search"]
               ELSE SearchFatal(sr, <<"new client">>)
    /\ UNCHANGED <<file, ld, indexExists, index, query, other>>

SearchRetrying ==
    /\ sr.pc = "search"
    /\ LET body == SearchBody(query)
           l == [sr EXCEPT !.requests = Append(@, body)]
       IN  \/ sr' = IF sr.requests = <<>> THEN l
                     ELSE SearchFatal(l, <<"transport error">>)
           \/ \E r \in SearchAnswers(body) :
                sr' = [l EXCEPT !.pc = "check", !.resp = r]
    /\ UNCHANGED <<file, ld, indexExists, index, query, other>>

\* Lines 57-72: the body is built and sent; err is set when no response came.
Search ==
    /\ sr.pc = "search"
    /\ LET body == SearchBody(query)
           l == [sr EXCEPT !.requests = Append(@, body)]
       IN  \/ sr' = SearchFatal(l, <<"transport error">>)
           \/ \E r \in SearchAnswers(body) :
                sr' = [l EXCEPT !.pc = "check", !.resp = r]
    /\ UNCHANGED <<file, ld, indexExists, index, query, other>>

CheckStatusIgnored ==
    /\ sr.pc = "check"
    /\ sr' = [sr EXCEPT !.pc = "decode"]
    /\ UNCHANGED <<file, ld, indexExists, index, query, other>>

\* Lines 74-76: a response that is an error is fatal.
CheckStatus ==
    /\ sr.pc = "check"
    /\ sr' = IF IsError(sr.resp)
             THEN SearchFatal(sr, <<"Error querying, status: ", sr.resp.status,
                                    ", response body: ", ResponseString(sr.resp)>>)
             ELSE [sr EXCEPT !.pc = "decode"]
    /\ UNCHANGED <<file, ld, indexExists, index, query, other>>

\* json.Decode of the body into BookSearchResponse (lines 21-29): each
\* hit's _source into a Book, its _score into a float64.
RECURSIVE DecodeHits(_)
DecodeHits(hs) ==
    IF hs = <<>> THEN [err |-> FALSE, hits |-> <<>>]
    ELSE LET b == UnmarshalBook(Head(hs).source)
             rest == DecodeHits(Tail(hs))
         IN  IF b.err \/ rest.err THEN [err |-> TRUE, hits |-> <<>>]
             ELSE [err |-> FALSE,
                   hits |-> <<[Book |-> b.book, Score |-> Head(hs).score]>> \o rest.hits]

\* An error body is a JSON object without hits; a garbage body does not
\* have the shape of BookSearchResponse: the decoder returns an error, with
\* the hits it met before the error already stored in the struct.
DecodeResponse(resp) ==
    IF resp.kind = "garbage" THEN [err |-> TRUE, hits |-> DecodeHits(resp.hits).hits]
    ELSE DecodeHits(resp.hits)

DecodeIgnoringError ==
    /\ sr.pc = "decode"
    /\ LET r == DecodeResponse(sr.resp)
       IN  sr' = [sr EXCEPT !.pc = "print", !.hits = r.hits, !.next = 1,
                            !.log = IF r.err THEN Append(@, <<"decode error">>) ELSE @]
    /\ UNCHANGED <<file, ld, indexExists, index, query, other>>

\* Lines 78-83.
Decode ==
    /\ sr.pc = "decode"
    /\ LET r == DecodeResponse(sr.resp)
       IN  sr' = IF r.err THEN SearchFatal(sr, <<"decode error">>)
                 ELSE [sr EXCEPT !.pc = "print", !.hits = r.hits, !.next = 1]
    /\ UNCHANGED <<file, ld, indexExists, index, query, other>>

\* %f: six digits after the point, rounded.
FormatF(score) ==
    LET micro == (score + 5) \div 10
    IN  [whole |-> micro \div 1000000, frac |-> micro % 1000000]

HitLineWithDescription(hit) ==
    <<hit.Book.title, ", ", hit.Book.description, " with score of ", FormatF(hit.Score)>>

\* Line 86: "%s, %s with score of %f\n".
HitLine(hit) ==
    <<hit.Book.title, ", ", hit.Book.url, " with score of ", FormatF(hit.Score)>>

\* Lines 85-87, one iteration; after the last hit main returns.
PrintHit ==
    /\ sr.pc = "print"
    /\ sr' = IF sr.next > Len(sr.hits) THEN [sr EXCEPT !.pc = "done"]
             ELSE [sr EXCEPT !.next = @ + 1,
                             !.out = Append(@, HitLine(sr.hits[sr.next]))]
    /\ UNCHANGED <<file, ld, indexExists, index, query, other>>

SearchNext ==
    \/ ParseFlags
    \/ SearchLoadEnv
    \/ SearchNewClient
    \/ Search
    \/ CheckStatus
    \/ Decode
    \/ PrintHit

(***************************************************************************)
(* One run of the search tool with any query, against an index that holds  *)
(* more documents than the request asks for.                               *)
(***************************************************************************)
MaxQueryLen == 2
CorpusSize == 11

CorpusBook(i) ==
    IF i % 3 = 0 THEN Book(<<"a">>, <<LT>>, <<QUOTE>>)
    ELSE IF i % 3 = 1 THEN Book(<<BSLASH, "a">>, <<"a", "a">>, <<>>)
    ELSE Book(<<U3C>>, <<QUOTE, LT>>, <<"a">>)

Corpus ==
    [i \in 1..CorpusSize |-> [id |-> i, key |-> "", source |-> MarshalBook(CorpusBook(i))]]

EmptyFile == [lines |-> <<>>, finalNewline |-> TRUE]

InitSearch ==
    /\ file = EmptyFile
    /\ ld = LoaderOff
    /\ indexExists = TRUE
    /\ index = Corpus
    /\ query \in StringsUpTo(MaxQueryLen)
    /\ sr = SearchStart
    /\ other = LoaderOff

SpecSearch == InitSearch /\ [][SearchNext]_vars

(***************************************************************************)
(* The second copy of the search tool, src/unnamed/part_000.  It prints a  *)
(* greeting, does not test the -query flag, and passes the query through   *)
(* url.QueryEscape before it goes into the template: letters and digits    *)
(* (and - _ . ~) stay as they are, a space becomes '+', every other byte   *)
(* becomes '%' and two hexadecimal digits.  The rest of main is the same.  *)
(***************************************************************************)
SPACE == " "

QueryChars == Chars \cup {SPACE}

QueryStrings(n) == UNION {[1..k -> QueryChars] : k \in 0..n}

EscapeQueryChar(c) ==
    IF c = SPACE THEN <<"+">>
    ELSE IF c = QUOTE THEN <<"%", "2", "2">>
    ELSE IF c = BSLASH THEN <<"%", "5", "C">>
    ELSE IF c = LT THEN <<"%", "3", "C">>
    ELSE <<c>>

QueryEscapeRaw(s) == s

QueryEscape(s) == Concat([i \in 1..Len(s) |-> EscapeQueryChar(s[i])])

\* fmt.Sprintf(query, url.QueryEscape(*queryPtr)).
EscapedSearchBody(q) == BodyPrefix \o QueryEscape(q) \o BodySuffix

EscapingParseFlagsChecking ==
    /\ sr.pc = "flags"
    /\ LET l == [sr EXCEPT !.out = Append(@, <<"Hello from search-books">>)]
       IN  sr' = IF query = <<>>
                 THEN SearchFatal(l, <<"No query provided for -query parameter">>)
                 ELSE [l EXCEPT !.pc = "load_env"]
    /\ UNCHANGED <<file, ld, indexExists, index, query, other>>

\* part_000 lines 33-35: the greeting and flag.Parse(); no test of the flag.
EscapingParseFlags ==
    /\ sr.pc = "flags"
    /\ sr' = [sr EXCEPT !.pc = "load_env",
                        !.out = Append(@, <<"Hello from search-books">>)]
    /\ UNCHANGED <<file, ld, indexExists, index, query, other>>

\* part_000 lines 54-69: the body is built from the escaped query and sent.
EscapingSearch ==
    /\ sr.pc = "search"
    /\ LET body == EscapedSearchBody(query)
           l == [sr EXCEPT !.requests = Append(@, body)]
       IN  \/ sr' = SearchFatal(l, <<"transport error">>)
           \/ \E r \in SearchAnswers(body) :
                sr' = [l EXCEPT !.pc = "check", !.resp = r]
    /\ UNCHANGED <<file, ld, indexExists, index, query, other>>

EscapingNext ==
    \/ EscapingParseFlags
    \/ SearchLoadEnv
    \/ SearchNewClient
    \/ EscapingSearch
    \/ CheckStatus
    \/ Decode
    \/ PrintHit

InitEscaping ==
    /\ file = EmptyFile
    /\ ld = LoaderOff
    /\ indexExists = TRUE
    /\ index = Corpus
    /\ query \in QueryStrings(MaxQueryLen)
    /\ sr = SearchStart
    /\ other = LoaderOff

SpecEscaping == InitEscaping /\ [][EscapingNext]_vars

(***************************************************************************)
(* Loader, then search tool: the loader reads a file of one line, any      *)
(* JSON object text with the three keys, and the search tool runs once     *)
(* the loader has exited with status 0; the engine answers from what the   *)
(* loader wrote.                                                           *)
(***************************************************************************)
PipelineLines ==
    {ObjectText(<<Member("title", t), Member("url", u), Member("description", d)>>) :
        t \in StringsUpTo(MaxStrLen),
        u \in {<<>>, <<BSLASH, U3C>>},
        d \in {<<"a">>, <<LT>>}}

InitPipeline ==
    /\ file \in {[lines |-> <<line>>, finalNewline |-> nl] :
                    line \in PipelineLines, nl \in BOOLEAN}
    /\ ld = LoaderStart
    /\ indexExists = FALSE
    /\ index = <<>>
    /\ query = <<"a">>
    /\ sr = SearchStart
    /\ other = LoaderOff

PipelineNext ==
    \/ LoaderNext
    \/ (ld.pc = "done" /\ SearchNext)

SpecPipeline == InitPipeline /\ [][PipelineNext]_vars

(***************************************************************************)
(* Two runs of the loader in sequence on the same file and the same index: *)
(* when the first process has exited with status 0 the second is started.  *)
(* The record of the first run is kept in other.                           *)
(***************************************************************************)
MaxRerunLines == 2

RecordLines == {LineA, LineB}

RecordFiles(n) ==
    {[lines |-> ls, finalNewline |-> nl] :
        ls \in UNION {[1..k -> RecordLines] : k \in 1..n}, nl \in BOOLEAN}

Rerun ==
    /\ ld.pc = "done"
    /\ other.pc = "off"
    /\ other' = ld
    /\ ld' = [LoaderStart EXCEPT !.id = 2]
    /\ UNCHANGED <<file, indexExists, index, query, sr>>

InitRerun ==
    /\ file \in RecordFiles(MaxRerunLines)
    /\ ld = LoaderStart
    /\ indexExists = FALSE
    /\ index = <<>>
    /\ query = <<>>
    /\ sr = SearchOff
    /\ other = LoaderOff

RerunNext ==
    \/ LoaderNext
    \/ Rerun

SpecRerun == InitRerun /\ [][RerunNext]_vars

(***************************************************************************)
(* Two loader processes started on the same file against the same index.   *)
(* ld is the process that takes the next step; the scheduler may switch to *)
(* the other process between any two steps.  Nothing in main makes one     *)
(* process wait for the other.                                             *)
(***************************************************************************)
MaxConcurrentLines == 1

Switch ==
    /\ other.pc # "off"
    /\ ld' = other
    /\ other' = ld
    /\ UNCHANGED <<file, indexExists, index, query, sr>>

InitConcurrent ==
    /\ file \in RecordFiles(MaxConcurrentLines)
    /\ ld = LoaderStart
    /\ indexExists = FALSE
    /\ index = <<>>
    /\ query = <<>>
    /\ sr = SearchOff
    /\ other = [LoaderStart EXCEPT !.id = 2]

ConcurrentNext ==
    \/ LoaderNext
    \/ Switch

SpecConcurrent == InitConcurrent /\ [][ConcurrentNext]_vars

(***************************************************************************)
(* One loader run against an engine that answers every request: every call *)
(* main makes returns and the indexer's worker goroutine is scheduled, so  *)
(* the process takes a step whenever it can take one.                      *)
(***************************************************************************)
MaxLiveLines == 3

InitLive ==
    /\ file \in {f \in Files : Len(f.lines) <= MaxLiveLines}
    /\ ld = LoaderStart
    /\ indexExists \in BOOLEAN
    /\ index = <<>>
    /\ query = <<>>
    /\ sr = SearchOff
    /\ other = LoaderOff

SpecLive == InitLive /\ [][LoaderNext]_vars /\ WF_vars(LoaderNext)

(***************************************************************************)
(* Properties.                                                             *)
(***************************************************************************)
Last(seq) == seq[Len(seq)]

Malformed(line) == UnmarshalBook(line).err

WellFormedFile == \A i \in 1..Len(file.lines) : ~Malformed(file.lines[i])

\* The lines the search tool printed after its greeting.
HitLines == SubSeq(sr.out, 2, Len(sr.out))

\* C1: when the engine answers the index-creation request with a
\* rejection, the loader terminates with a non-zero status and submits no
\* bulk-write item in that run.
C1_RejectedCreateIsFatal ==
    ld.createResp = "400" => (ld.submitted = <<>> /\ ld.pc # "done")

\* C2: for a file whose lines are all well-formed Book JSON, whether or not
\* the last line ends with a newline, a run that meets no fatal condition
\* (the index was created, the run ended with status 0) has submitted one
\* item per line, in file order, none skipped.
C2_EveryLineSubmitted ==
    (ld.pc = "done" /\ ld.createResp = "200" /\ WellFormedFile) =>
        /\ Len(ld.submitted) = Len(file.lines)
        /\ \A i \in 1..Len(file.lines) :
              UnmarshalBook(ld.submitted[i].body).book = UnmarshalBook(file.lines[i]).book

\* C3: if line k is malformed, no line after k is ever read or submitted,
\* what has been submitted is a prefix of the records before k, and when
\* the loader dies of the decode error at line k exactly the records of
\* lines 1..k-1 have been submitted.
C3_MalformedLineStopsLoader ==
    \A k \in 1..Len(file.lines) :
        Malformed(file.lines[k]) =>
            /\ ld.pos <= k
            /\ Len(ld.submitted) <= k - 1
            /\ \A i \in 1..Len(ld.submitted) :
                  ld.submitted[i].body = MarshalBook(UnmarshalBook(file.lines[i]).book)
            /\ (ld.pc = "fatal" /\ Last(ld.log) = "error unmarshalling json" /\ ld.pos = k)
                  => Len(ld.submitted) = k - 1

C3_Witness ==
    /\ Len(file.lines) = 4
    /\ Malformed(file.lines[2])
    /\ ~Malformed(file.lines[1]) /\ ~Malformed(file.lines[3]) /\ ~Malformed(file.lines[4])
    /\ ld.pc = "fatal"
    /\ Last(ld.log) = "error unmarshalling json"
    /\ ld.pos = 2
    /\ Len(ld.submitted) = 1

\* C4: a per-item failure reported by the bulk indexer is only logged: the
\* step in which the failure callback prints its line leaves the loader
\* where it was, with its position in the file and its submitted items
\* unchanged, so that the lines that follow are read and submitted.
FailureLines == {"ERROR: err", "ERROR: type: reason"}

C4_ItemFailureOnlyLogged ==
    [][(\E i \in 1..Len(ld'.log) : i > Len(ld.log) /\ ld'.log[i] \in FailureLines)
          => /\ ld'.pc = ld.pc
             /\ ld'.pos = ld.pos
             /\ ld'.submitted = ld.submitted
             /\ Len(ld'.log) - Len(ld.log) <= Len(ld.pending) - Len(ld'.pending)]_vars

C4_Witness ==
    /\ ld.pc = "done"
    /\ Len(ld.log) >= 2
    /\ ld.log[1] = "ERROR: err"
    /\ ld.log[2] = "ERROR: type: reason"
    /\ Len(ld.submitted) = 3
    /\ Len(index) = 1

\* C5: given an empty query the search tool terminates with a diagnostic
\* before it loads its configuration, builds a client or sends a request.
C5_EmptyQueryRejectedFirst ==
    query = <<>> =>
        /\ sr.pc \in {"flags", "fatal"}
        /\ sr.requests = <<>>
        /\ sr.out = <<>>
        /\ sr.pc = "fatal" => sr.log = << <<"No query provided for -query parameter">> >>

C5_Witness == query = <<>> /\ sr.pc = "fatal"

\* C6: for every non-empty query the request body is well-formed JSON of
\* the template's shape, with the three fields and size 10, whose query
\* text decodes to exactly the user's query.
C6_RequestCarriesQuery ==
    \A i \in 1..Len(sr.requests) :
        LET req == ParseSearchBody(sr.requests[i])
        IN  /\ req.ok
            /\ req.text = query
            /\ req.fields = FieldsText
            /\ req.size = 10

\* C7: whatever the query and whatever the engine answers, the search tool
\* prints at most 10 hit lines.
SizeCap == 10

C7_AtMostTenHitLines == Len(HitLines) <= SizeCap

C7_Witness ==
    /\ sr.pc = "done"
    /\ sr.resp.total > SizeCap
    /\ Len(HitLines) = SizeCap

\* C8: when the response has a non-success status the search tool
\* terminates with a diagnostic that holds the status and the body, and
\* prints no hit line.
C8_ErrorStatusIsFatal ==
    (sr.resp.status \notin {"none", "200 OK"} /\ sr.pc # "check") =>
        /\ sr.pc = "fatal"
        /\ Last(sr.log) = <<"Error querying, status: ", sr.resp.status,
                            ", response body: ", <<"[", sr.resp.status, "] ", sr.resp.kind>> >>
        /\ HitLines = <<>>

C8_Witness == sr.pc = "fatal" /\ sr.resp.status = "400 Bad Request"

\* C9: on a successful, decodable response the search tool prints one line
\* per hit, in the order of the response, each made of that hit's _source
\* title, _source url and _score, and then exits with status 0.
ExpectedLine(hit) ==
    LET b == UnmarshalBook(hit.source).book
        micro == (hit.score + 5) \div 10
    IN  <<b.title, ", ", b.url, " with score of ",
          [whole |-> micro \div 1000000, frac |-> micro % 1000000]>>

C9_OneLinePerHitInOrder ==
    (sr.resp.kind = "hits" /\ sr.pc \notin {"check", "decode"}) =>
        /\ sr.pc \in {"print", "done"}
        /\ Len(HitLines) = (IF sr.pc = "done" THEN Len(sr.resp.hits) ELSE sr.next - 1)
        /\ \A i \in 1..Len(HitLines) : HitLines[i] = ExpectedLine(sr.resp.hits[i])

C9_Witness ==
    /\ sr.pc = "done"
    /\ Len(sr.resp.hits) = 3
    /\ Len(HitLines) = 3
    /\ HitLines[1] # HitLines[2]
    /\ HitLines[1][1] # HitLines[1][3]

\* C10: the document the loader submits for a Book it read, returned by the
\* engine as the _source of a hit, is decoded by the search tool without
\* error into a Book with the same title, url and description.
C10_RoundTrip ==
    (sr.resp.kind = "hits" /\ sr.pc \notin {"check", "decode"}) =>
        /\ sr.pc # "fatal"
        /\ Len(sr.hits) = Len(sr.resp.hits)
        /\ \A i \in 1..Len(sr.hits) : sr.hits[i].Book = ld.book

C10_Witness ==
    /\ sr.pc = "done"
    /\ Len(sr.hits) = 1
    /\ ld.book.title = <<BSLASH, U3C>>
    /\ ld.book.url = <<LT>>
    /\ file.lines[1].members[1].val = <<BSLASH, BSLASH, U3C>>

\* C11: at every point of a run the number of items submitted equals the
\* number of lines decoded into a Book, except between the decoding of a
\* record and its submission, when it is one less (a run that dies there
\* stays one less); at exit with status 0 the two are equal, whatever the
\* engine rejected.
C11_SubmittedMatchesDecoded ==
    /\ ld.pc \in {"marshal", "add"} => Len(ld.submitted) + 1 = ld.decoded
    /\ ld.pc \notin {"marshal", "add", "fatal"} => Len(ld.submitted) = ld.decoded
    /\ ld.pc = "fatal" =>
          /\ Len(ld.submitted) <= ld.decoded
          /\ ld.decoded <= Len(ld.submitted) + 1

C11_Witness ==
    /\ ld.pc = "done"
    /\ ld.decoded = 3
    /\ Len(ld.submitted) = 3
    /\ ld.log = <<"ERROR: type: reason", "ERROR: type: reason", "ERROR: type: reason">>
    /\ index = <<>>

\* C12: every submitted item is an "index" action without a document id;
\* its body is a JSON object with exactly the keys title, url and
\* description, in that order, whose values decode to the fields of the
\* Book decoded from the item's line, whatever other keys the line holds;
\* there is one item per record.
C12_ItemsAreIndexActions ==
    /\ Len(ld.submitted) <= ld.pos
    /\ \A i \in 1..Len(ld.submitted) :
          LET item == ld.submitted[i]
              ms == item.body.members
              book == UnmarshalBook(file.lines[i]).book
          IN  /\ item.action = "index"
              /\ item.documentID = ""
              /\ item.body.kind = "object" /\ item.body.closed
              /\ [k \in 1..Len(ms) |-> ms[k].key] = <<"title", "url", "description">>
              /\ Unquote(ms[1].val) = [ok |-> TRUE, str |-> book.title]
              /\ Unquote(ms[2].val) = [ok |-> TRUE, str |-> book.url]
              /\ Unquote(ms[3].val) = [ok |-> TRUE, str |-> book.description]

C12_Witness ==
    /\ Len(ld.submitted) = 2
    /\ file.lines[2] = LineB
    /\ ld.submitted[2].body.members[1].val = <<BSLASH, QUOTE>>
    /\ ld.submitted[1].body.members[2].val = <<BSLASH, U3C>>

\* C13: the loader exits with status 0 only when no fatal condition
\* occurred in the run, a failed index creation among them; a run in which
\* the index creation failed (transport failure or rejection) has
\* terminated with a non-zero status; a logged per-item rejection is never
\* what ended a run.
C13_ExitZeroOnlyWithoutFatalCondition ==
    /\ ld.pc = "done" => ld.createResp = "200"
    /\ ld.createResp \in {"400", "transport_error"} => ld.pc = "fatal"
    /\ ld.pc = "fatal" => Last(ld.log) \notin FailureLines

\* C14: the bulk indexer is closed at most once, and when it is closed every
\* line of the file has been read and every record of the file has been
\* submitted; a run whose Close failed has terminated with a non-zero status.
C14_ClosedOnceAfterEverythingSubmitted ==
    /\ ld.closeCalls <= 1
    /\ ld.closeCalls = 1 =>
          /\ ld.pos = Len(file.lines)
          /\ Len(ld.submitted) = Len(file.lines)
    /\ (ld.log # <<>> /\ Last(ld.log) = "Unexpected error") => ld.pc = "fatal"

\* C15: an empty line is never handed to the decoder: once the loader has
\* read one it is not about to decode it, and it does not die of a decode
\* error on it.
C15_EmptyLineSkipped ==
    (ld.pos >= 1 /\ file.lines[ld.pos] = EmptyText) =>
        /\ ld.pc # "unmarshal"
        /\ ~(ld.pc = "fatal" /\ Last(ld.log) = "error unmarshalling json")

\* The states in which the loader has got past the index creation.
PastCreate ==
    {"new_indexer", "open_file", "read", "unmarshal", "marshal", "add",
     "close", "closing", "done"}

\* C16: the index-creation request is issued at most once in a run; it has
\* been issued once, and answered, in every state in which the bulk indexer
\* exists, the file is open or an item has been submitted; before it is
\* issued nothing has been read or submitted.
C16_IndexCreatedOnceBeforeWrites ==
    /\ ld.createCalls <= 1
    /\ (ld.pc \in PastCreate \/ ld.pos > 0 \/ ld.submitted # <<>>
          \/ (ld.pc = "fatal" /\ Last(ld.log) = "open goodreads_books.json")) =>
          /\ ld.createCalls = 1
          /\ ld.createResp \in {"200", "400"}
    /\ ld.createCalls = 0 =>
          /\ ld.createResp = "none"
          /\ ld.pos = 0 /\ ld.submitted = <<>> /\ ld.pending = <<>>

C16_Witness ==
    /\ ld.pc = "done"
    /\ ld.createCalls = 1
    /\ ld.createResp = "200"
    /\ Len(ld.submitted) = 2
    /\ Len(index) = 2

\* C17: when os.Open fails the loader has terminated with a non-zero
\* status, the index-creation request has been sent once and answered, no
\* item has been submitted and the index holds no document.
C17_OpenFailureAfterCreate ==
    (ld.pc = "fatal" /\ Last(ld.log) = "open goodreads_books.json") =>
        /\ ld.createCalls = 1
        /\ ld.createResp \in {"200", "400"}
        /\ ld.pos = 0
        /\ ld.submitted = <<>>
        /\ index = <<>>

C17_Witness ==
    /\ ld.pc = "fatal"
    /\ ld.log = <<"open goodreads_books.json">>
    /\ ld.createResp = "200"
    /\ indexExists
    /\ index = <<>>
    /\ ld.submitted = <<>>
    /\ Len(file.lines) > 0

\* A run in which no item failed.
Clean(l) == \A i \in 1..Len(l.log) : l.log[i] \notin FailureLines

\* The document the loader sends for line i of the file.
Document(i) == MarshalBook(UnmarshalBook(file.lines[i]).book)

\* C18: when the loader has run to completion twice in sequence on the same
\* file, no item having failed, the index holds every record of the file
\* twice: the documents of the first run followed by those of the second.
C18_TwoRunsIndexEveryRecordTwice ==
    (ld.id = 2 /\ ld.pc = "done" /\ other.pc = "done" /\ Clean(ld) /\ Clean(other)) =>
        /\ Len(index) = 2 * Len(file.lines)
        /\ \A i \in 1..Len(file.lines) :
              /\ index[i].source = Document(i)
              /\ index[Len(file.lines) + i].source = Document(i)

\* C19: with two loader processes running concurrently no step removes or
\* changes a document of the index, and when both have exited with status
\* 0, no item having failed, the index holds one document per item
\* submitted by either.
C19_ConcurrentLoadersOnlyAdd ==
    /\ []((ld.pc = "done" /\ other.pc = "done" /\ Clean(ld) /\ Clean(other)) =>
             Len(index) = Len(ld.submitted) + Len(other.submitted))
    /\ [][/\ Len(index') >= Len(index)
          /\ \A i \in 1..Len(index) : index'[i] = index[i]]_vars

\* Both processes got past the index creation, one of them with a rejected
\* request, both submitted every record, and the index holds every record
\* twice.
C19_Witness ==
    /\ ld.pc = "done" /\ other.pc = "done"
    /\ {ld.createResp, other.createResp} = {"200", "400"}
    /\ file.finalNewline
    /\ Len(ld.submitted) = Len(file.lines)
    /\ Len(other.submitted) = Len(file.lines)
    /\ Len(index) = 2 * Len(file.lines)
    /\ \A i \in 1..Len(index) : index[i].source = Document(1)

\* C20: neither tool calls a remote operation again after it failed.  In
\* one run Indices.Create, Close and Search are called at most once, item i
\* is the one submission of line i, an item that left the queue never comes
\* back, and a process that met a fatal condition takes no further step.
C20_NoRetry ==
    /\ [](/\ ld.createCalls <= 1
          /\ ld.closeCalls <= 1
          /\ Len(sr.requests) <= 1
          /\ Len(ld.submitted) <= ld.pos
          /\ \A i \in 1..Len(ld.submitted) : ld.submitted[i].body = Document(i))
    /\ [][Len(ld'.pending) > Len(ld.pending) =>
             (ld.pc = "add" /\ Len(ld'.submitted) = Len(ld.submitted) + 1)]_vars
    /\ [][ld.pc = "fatal" => ld' = ld]_vars
    /\ [][sr.pc = "fatal" => sr' = sr]_vars

C20_Witness ==
    /\ ld.pc = "done"
    /\ ld.createCalls = 1
    /\ ld.log = <<"ERROR: err">>
    /\ Len(ld.submitted) = 1
    /\ sr.pc = "fatal"
    /\ Len(sr.requests) = 1
    /\ sr.resp.status = "503 Service Unavailable"

\* C21: when the body of a response with a success status cannot be
\* decoded the search tool terminates with a non-zero status and has
\* printed no hit line; a hit line is printed only when the whole response
\* was decoded without error.
C21_UndecodableResponsePrintsNothing ==
    /\ (sr.resp.status = "200 OK" /\ DecodeResponse(sr.resp).err
          /\ sr.pc \notin {"check", "decode"}) =>
          /\ sr.pc = "fatal"
          /\ Last(sr.log) = <<"decode error">>
          /\ HitLines = <<>>
    /\ HitLines # <<>> =>
          /\ ~DecodeResponse(sr.resp).err
          /\ Len(sr.hits) = Len(sr.resp.hits)

C21_Witness ==
    /\ sr.pc = "fatal"
    /\ sr.resp.status = "200 OK"
    /\ sr.resp.kind = "garbage"
    /\ Len(sr.resp.hits) = 1
    /\ HitLines = <<>>

\* C22: a loader run on a finite file, against an engine that answers,
\* eventually terminates, on a fatal condition or with status 0; it exits
\* with status 0 only after it reached the end of the file and closed the
\* bulk indexer; the read position never goes back and advances by one line
\* at a time, and the line being decoded is the one at the read position.
C22_LoaderTerminates ==
    /\ <>(ld.pc \in {"done", "fatal"})
    /\ [](ld.pc = "done" => (ld.pos = Len(file.lines) /\ ld.closeCalls = 1))
    /\ [](ld.pc = "unmarshal" => ld.readBytes = file.lines[ld.pos])
    /\ [](ld.pos <= Len(file.lines))
    /\ [][ld'.pos = ld.pos \/ (ld.pc = "read" /\ ld'.pos = ld.pos + 1)]_vars

C22_Witness ==
    /\ ld.pc = "done"
    /\ Len(file.lines) = 3
    /\ ld.pos = 3
    /\ Len(ld.submitted) = 3
    /\ ld.closeCalls = 1

\* The queries made only of characters url.QueryEscape leaves as they are.
LeftUnchanged(q) == \A j \in 1..Len(q) : EscapeQueryChar(q[j]) = <<q[j]>>

C26_EscapingCopyDoesNotValidate ==
    /\ \A i \in 1..Len(sr.log) :
          sr.log[i] # <<"No query provided for -query parameter">>
    /\ (query = <<>> /\ sr.pc \notin {"flags", "load_env", "new_client", "search", "fatal"}) =>
          /\ Len(sr.requests) = 1
          /\ ParseSearchBody(sr.requests[1]).ok
          /\ ParseSearchBody(sr.requests[1]).text = <<>>
    /\ sr.requests # <<>> => sr.out # <<>>

C26_Witness ==
    /\ query = <<>>
    /\ sr.pc = "done"
    /\ Len(sr.requests) = 1
    /\ sr.requests[1] = BodyPrefix \o BodySuffix
    /\ Len(HitLines) = 3

\* The fatal conditions of the read loop: read, decode and submission error.
LoopFatals ==
    {"error reading readBytes", "error unmarshalling json",
     "error adding item to bulk indexer"}

\* The number of submitted items the worker has taken from the queue.
Flushed(l) == Len(l.submitted) - Len(l.pending)

\* C24: when the loader has died of a read, decode or submission error,
\* Close was never called, the items still queued are the last of the
\* submitted ones, the index holds only documents of the items before
\* them, and from then on neither the queue nor the index changes.
C24_AbortedRunLeavesQueueUnsent ==
    /\ []((ld.pc = "fatal" /\ Last(ld.log) \in LoopFatals) =>
             /\ ld.closeCalls = 0
             /\ ld.pending = SubSeq(ld.submitted, Flushed(ld) + 1, Len(ld.submitted))
             /\ Len(index) <= Flushed(ld)
             /\ \A i \in 1..Len(index) :
                   \E j \in 1..Flushed(ld) : index[i].source = ld.submitted[j].body)
    /\ [][(ld.pc = "fatal" /\ Last(ld.log) \in LoopFatals) =>
             (ld'.pending = ld.pending /\ index' = index)]_vars

\* A decode error on the fourth line with the three items before it
\* still queued: nothing was written.
C24_Witness ==
    /\ ld.pc = "fatal"
    /\ Last(ld.log) = "error unmarshalling json"
    /\ ld.pos = 4
    /\ Len(ld.submitted) = 3
    /\ ld.pending = ld.submitted
    /\ index = <<>>

\* C25: a run in which the indexer's OnError was called has terminated
\* with a non-zero status at that call; if lines were still unread then,
\* Close was never called; nothing is read or submitted afterwards.
C25_OnErrorIsFatalAnywhere ==
    /\ []((\E i \in 1..Len(ld.log) : ld.log[i] = "bulkindexer OnError") =>
             /\ ld.pc = "fatal"
             /\ Last(ld.log) = "bulkindexer OnError"
             /\ Len(ld.submitted) <= ld.pos
             /\ ld.pos < Len(file.lines) => ld.closeCalls = 0)
    /\ [][(ld.pc = "fatal" /\ Last(ld.log) = "bulkindexer OnError") =>
             (ld'.pos = ld.pos /\ ld'.submitted = ld.submitted
                /\ ld'.closeCalls = ld.closeCalls /\ ld'.pc = "fatal")]_vars

C25_Witness ==
    /\ ld.pc = "fatal"
    /\ Last(ld.log) = "bulkindexer OnError"
    /\ Len(file.lines) = 4
    /\ ld.pos = 2
    /\ Len(ld.submitted) = 1
    /\ ld.closeCalls = 0

====
